---- MODULE Spec2Model ----
(***************************************************************************)
(* TidyTabs: the expense-settlement calculator calculateExpenseSplit of    *)
(* src/firebase/nativeConfig.js, as a state machine.                       *)
(*                                                                         *)
(* Money.  The code computes on IEEE doubles.  The model computes exactly: *)
(* an amount is a whole number of cents, and a balance of a call with n    *)
(* valid members is kept multiplied by n (balance * n = n * paid - total), *)
(* so that the unit of a balance is 1/n cent and every balance is an       *)
(* integer.  Where the doubles of the code can fall on either side of an   *)
(* exact boundary the model takes both sides:                              *)
(*   - a settlement amount exactly on a half cent rounds up or down        *)
(*     (1.005 * 100 is 100.49999999999999, 0.005 * 100 is 0.5);            *)
(*   - a remaining balance of exactly one cent passes or fails the         *)
(*     "< 0.01" test (0.02 - 0.01 is 0.01, 0.57 - 0.56 is below it);       *)
(*   - two members with the same total, summed from different amounts,     *)
(*     sort in either order (0.1 + 0.2 is not 0.3).                        *)
(* The choices a run takes are recorded in keys and fp, so that the same   *)
(* arithmetic can be replayed on another input, and is the arithmetic of a *)
(* second call with the same arguments (earlier holds the first call).     *)
(*                                                                         *)
(* Range.  The doubles of the model are narrow: the largest is MaxValue,   *)
(* and a product above it is Infinity (Number.MAX_VALUE is 1.8e308).  A    *)
(* running balance is a number, Infinity, -Infinity or NaN.                *)
(***************************************************************************)
EXTENDS Integers, Sequences, FiniteSets, TLC

VARIABLES expenses, members, pc, validMembers, totalSpent, balances, keys,
          creditors, debtors, transactions, fp, result, earlier,
          screen, stored, awaiting, frames,
          groupDocs, expenseDocs, calls

\* The state of the group-detail screen, of the store behind it, and the
\* calls and callbacks its handlers wait for.
screenVars == <<screen, stored, awaiting, frames>>

\* The state of a call of calculateExpenseSplit.
callVars == <<expenses, members, pc, validMembers, totalSpent, balances, keys,
              creditors, debtors, transactions, fp, result, earlier>>

\* The documents of the store, src/firebase/nativeConfig.js, and the calls
\* of its functions that are under way or have returned.
storeVars == <<groupDocs, expenseDocs, calls>>

vars == <<callVars, screenVars, storeVars>>

(***************************************************************************)
(* JavaScript values.  A string is its sequence of characters.  A number   *)
(* used as an amount counts cents.                                         *)
(***************************************************************************)
Str(s) == [t |-> "string", s |-> s, n |-> 0]
Num(n) == [t |-> "number", s |-> <<>>, n |-> n]
NaN == [t |-> "NaN", s |-> <<>>, n |-> 0]
Undefined == [t |-> "undefined", s |-> <<>>, n |-> 0]
Null == [t |-> "null", s |-> <<>>, n |-> 0]

Arr(items) == [t |-> "array", items |-> items]
NullArr == [t |-> "null", items |-> <<>>]

Obj(payer, amount) == [t |-> "object", payer |-> payer, amount |-> amount]
NullRec == [t |-> "null", payer |-> Undefined, amount |-> Undefined]

\* ToBoolean: what `!x` and `x && ...` test.
Truthy(v) ==
  CASE v.t = "string" -> v.s # <<>>
    [] v.t = "number" -> v.n # 0
    [] OTHER -> FALSE

WhiteSpace == {" ", "\t", "\n"}

RECURSIVE TrimStart(_)
TrimStart(s) ==
  IF s # <<>> /\ Head(s) \in WhiteSpace THEN TrimStart(Tail(s)) ELSE s

RECURSIVE TrimEnd(_)
TrimEnd(s) ==
  IF s # <<>> /\ s[Len(s)] \in WhiteSpace
    THEN TrimEnd(SubSeq(s, 1, Len(s) - 1))
    ELSE s

\* String.prototype.trim
Trim(s) == TrimEnd(TrimStart(s))

Digits == <<"0", "1", "2", "3", "4", "5", "6", "7", "8", "9">>

DigitValue(ch) == (CHOOSE d \in 1..10 : Digits[d] = ch) - 1

IsDigit(ch) == \E d \in 1..10 : Digits[d] = ch

RECURSIVE DigitsValue(_, _)
DigitsValue(s, acc) ==
  IF s = <<>> THEN acc ELSE DigitsValue(Tail(s), 10 * acc + DigitValue(Head(s)))

\* A total: nan, or c cents; addends are the amounts it was summed from.
Zero == [nan |-> FALSE, c |-> 0, addends |-> <<>>]

\* Number(amount), in cents.  Of the strings, the blank ones are 0 and the
\* ones made of digits are that many units of currency; the rest are NaN.
ToNumber(v) ==
  CASE v.t = "number" -> [nan |-> FALSE, c |-> v.n]
    [] v.t = "null" -> [nan |-> FALSE, c |-> 0]
    [] v.t = "string" ->
         IF Trim(v.s) = <<>> THEN [nan |-> FALSE, c |-> 0]
         ELSE IF \A i \in 1..Len(v.s) : IsDigit(v.s[i])
           THEN [nan |-> FALSE, c |-> 100 * DigitsValue(v.s, 0)]
           ELSE [nan |-> TRUE, c |-> 0]
    [] OTHER -> [nan |-> TRUE, c |-> 0]

(***************************************************************************)
(* Lines 287-288: members.filter(member => member && member.trim() !== "") *)
(***************************************************************************)
\* The callback without the trim: member => member
MemberTestNoTrim(member) ==
  IF ~Truthy(member) THEN "drop"
  ELSE IF member.t # "string" THEN "throw"
  ELSE "keep"

\* The callback on one entry: "keep", "drop", or "throw" (a truthy entry
\* that is no string has no trim method).
MemberTest(member) ==
  IF ~Truthy(member) THEN "drop"
  ELSE IF member.t # "string" THEN "throw"
  ELSE IF Trim(member.s) # <<>> THEN "keep"
  ELSE "drop"

IsValidMember(member) == MemberTest(member) = "keep"

\* members.filter throws on null, and when the callback throws.
FilterThrows(mem) ==
  \/ mem.t # "array"
  \/ \E i \in 1..Len(mem.items) : MemberTest(mem.items[i]) = "throw"

ValidMembers(items) == SelectSeq(items, IsValidMember)

\* A removal in place (splice) of the entries that fail the test.
FilterInPlace(arr) ==
  [self |-> Arr(ValidMembers(arr.items)), value |-> ValidMembers(arr.items)]

\* Line 287: members.filter returns a new array (value) and leaves the
\* array it is called on (self) as it is.
Filter(arr) == [self |-> arr, value |-> ValidMembers(arr.items)]

Includes(seq, x) == \E i \in 1..Len(seq) : seq[i] = x

(***************************************************************************)
(* Lines 291-301: the totals per payer.                                    *)
(***************************************************************************)
\* Line 299 without its last test: !payer || !validMembers.includes(payer)
SkippedNoAmountTest(expense, vm) ==
  \/ ~Truthy(expense.payer)
  \/ ~Includes(vm, expense.payer)

\* Line 299: the expense is passed over.
Skipped(expense, vm) ==
  \/ ~Truthy(expense.payer)
  \/ ~Includes(vm, expense.payer)
  \/ ~Truthy(expense.amount)

\* Line 297 and 298: expenses.forEach throws on null, and destructuring a
\* record that is null is a TypeError.
ForEachThrows(exp) ==
  \/ exp.t # "array"
  \/ \E i \in 1..Len(exp.items) : exp.items[i].t # "object"

\* 0 in the place of the running total: totalSpent[payer] = Number(amount)
ZeroAlways(x) == Zero

\* (totalSpent[payer] || 0): NaN and 0 are falsy.
OrZero(x) == IF x.nan \/ x.c = 0 THEN Zero ELSE x

Plus(x, y, cents) ==
  [nan |-> x.nan \/ y.nan,
   c |-> IF x.nan \/ y.nan THEN 0 ELSE x.c + y.c,
   addends |-> Append(x.addends, cents)]

RECURSIVE AddUp(_, _, _)
AddUp(items, vm, acc) ==
  IF items = <<>> THEN acc
  ELSE LET expense == Head(items)
           num == ToNumber(expense.amount)
       IN AddUp(Tail(items), vm,
                IF Skipped(expense, vm) THEN acc
                ELSE [acc EXCEPT ![expense.payer] =
                        Plus(OrZero(@), num, IF num.nan THEN -1 ELSE num.c)])

KeySet(vm) == {vm[i] : i \in 1..Len(vm)}

TotalSpent(items, vm) == AddUp(items, vm, [m \in KeySet(vm) |-> Zero])

RECURSIVE Dedupe(_, _)
Dedupe(seq, seen) ==
  IF seq = <<>> THEN <<>>
  ELSE IF Head(seq) \in seen THEN Dedupe(Tail(seq), seen)
  ELSE <<Head(seq)>> \o Dedupe(Tail(seq), seen \cup {Head(seq)})

\* The entries of vm, one key for each: validMembers.forEach at line 318.
KeysWithRepeats(vm) == vm

\* A name that is an array index: digits, with no zero in front.
IsArrayIndex(name) ==
  /\ name.t = "string" /\ name.s # <<>>
  /\ \A i \in 1..Len(name.s) : IsDigit(name.s[i])
  /\ Len(name.s) = 1 \/ Head(name.s) # "0"

NotArrayIndex(name) == ~IsArrayIndex(name)

IndexValue(name) == DigitsValue(name.s, 0)

RECURSIVE InsertIndex(_, _)
InsertIndex(sorted, x) ==
  IF sorted = <<>> THEN <<x>>
  ELSE IF IndexValue(x) < IndexValue(Head(sorted)) THEN <<x>> \o sorted
  ELSE <<Head(sorted)>> \o InsertIndex(Tail(sorted), x)

RECURSIVE AscendingIndices(_, _)
AscendingIndices(seq, acc) ==
  IF seq = <<>> THEN acc
  ELSE AscendingIndices(Tail(seq), InsertIndex(acc, Head(seq)))

\* The names of vm, each once, in the order of first insertion.
InsertionOrder(vm) == Dedupe(vm, {})

\* The keys in the order of first insertion, whatever the names are.
KeysAsInserted(vm) == Dedupe(vm, {})

\* Object.keys of an object filled in the order of vm: the names that are
\* array indices in ascending numeric order, then the other names in the
\* order of first insertion.
ObjectKeys(vm) ==
  AscendingIndices(SelectSeq(InsertionOrder(vm), IsArrayIndex), <<>>)
    \o SelectSeq(InsertionOrder(vm), NotArrayIndex)

(***************************************************************************)
(* Lines 304-311: total, fair share, balances.                             *)
(***************************************************************************)
RECURSIVE SumKeys(_, _)
SumKeys(ks, spent) ==
  IF ks = <<>> THEN [nan |-> FALSE, c |-> 0]
  ELSE LET rest == SumKeys(Tail(ks), spent)
           x == spent[Head(ks)]
       IN [nan |-> rest.nan \/ x.nan,
           c |-> IF rest.nan \/ x.nan THEN 0 ELSE rest.c + x.c]

TotalExpenses(vm, spent) == SumKeys(ObjectKeys(vm), spent)

\* balances[member] * n, where n = validMembers.length:
\* n * (totalSpent[member] - totalExpenses / n).
Balances(vm, spent) ==
  LET total == TotalExpenses(vm, spent)
  IN [m \in KeySet(vm) |->
        [nan |-> total.nan \/ spent[m].nan,
         b |-> IF total.nan \/ spent[m].nan THEN 0
               ELSE Len(vm) * spent[m].c - total.c]]

(***************************************************************************)
(* Lines 315-328: creditors and debtors, sorted.                           *)
(***************************************************************************)
\* Two totals that are equal, but are sums of different amounts: as doubles
\* they may differ in the last place, either way.
Unsettled(spent, x, y) ==
  /\ ~spent[x].nan /\ ~spent[y].nan
  /\ spent[x].c = spent[y].c
  /\ spent[x].addends # spent[y].addends

\* The orders in which the keys can count for the sort: Object.keys, with
\* members whose totals are Unsettled in either order.
KeyOrders(vm, spent) ==
  LET keys0 == ObjectKeys(vm)
      k == Len(keys0)
  IN IF \A i, j \in 1..k : ~Unsettled(spent, keys0[i], keys0[j])
       THEN {keys0}
       ELSE {[i \in 1..k |-> keys0[p[i]]] :
               p \in {q \in [1..k -> 1..k] :
                        /\ \A i, j \in 1..k : i # j => q[i] # q[j]
                        /\ \A i, j \in 1..k :
                             (i < j /\ q[i] > q[j])
                               => Unsettled(spent, keys0[q[j]], keys0[q[i]])}}

\* Lines 320 and 322: { name: member, balance: balances[member] }.  The
\* field is tells what the balance is: "number" (then balance holds it, in
\* 1/n cent), "Infinity", "-Infinity" or "NaN".
Entries(ko, bal) ==
  [i \in 1..Len(ko) |-> [name |-> ko[i], balance |-> bal[ko[i]].b, is |-> "number"]]

IsCreditor(e) == e.balance > 0

IsDebtor(e) == e.balance < 0

\* The comparators of lines 327 and 328: a goes before b.
CreditorBefore(a, b) == a.balance > b.balance

DebtorBefore(a, b) == a.balance < b.balance

RECURSIVE Insert(_, _, _)
Insert(sorted, x, desc) ==
  IF sorted = <<>> THEN <<x>>
  ELSE IF (IF desc THEN CreditorBefore(x, Head(sorted))
                   ELSE DebtorBefore(x, Head(sorted)))
    THEN <<x>> \o sorted
    ELSE <<Head(sorted)>> \o Insert(Tail(sorted), x, desc)

RECURSIVE SortInto(_, _, _)
SortInto(seq, acc, desc) ==
  IF seq = <<>> THEN acc
  ELSE SortInto(Tail(seq), Insert(acc, Head(seq), desc), desc)

\* Array.prototype.sort, which is stable.
StableSort(seq, desc) == SortInto(seq, <<>>, desc)

\* A NaN balance is neither > 0 nor < 0.
Creditors(ko, bal) ==
  IF \E m \in DOMAIN bal : bal[m].nan THEN <<>>
  ELSE StableSort(SelectSeq(Entries(ko, bal), IsCreditor), TRUE)

Debtors(ko, bal) ==
  IF \E m \in DOMAIN bal : bal[m].nan THEN <<>>
  ELSE StableSort(SelectSeq(Entries(ko, bal), IsDebtor), FALSE)

(***************************************************************************)
(* Lines 330-357: one iteration of the matching loop.                      *)
(***************************************************************************)
Abs(x) == IF x < 0 THEN -x ELSE x

Min(x, y) == IF x < y THEN x ELSE y

\* Math.max in the place of Math.min.
MaxAmount(creditor, debtor) ==
  IF creditor.balance > -debtor.balance THEN creditor.balance ELSE -debtor.balance

\* Line 334, in 1/n cent.
MinAmount(creditor, debtor) == Min(creditor.balance, -debtor.balance)

\* amount * 100 is exactly on a half.
IsTie(amt, n) == (2 * amt + n) % (2 * n) = 0

\* Line 337: Math.round(amount * 100), in cents.  Math.round takes a half
\* up; down is what the double below the half gives.
RoundCents(amt, n, tieDown) ==
  LET r == (2 * amt + n) \div (2 * n)
  IN IF IsTie(amt, n) /\ tieDown THEN r - 1 ELSE r

DigitChar(d) == Digits[d + 1]

RECURSIVE IntDigits(_)
IntDigits(k) ==
  IF k < 10 THEN <<DigitChar(k)>>
  ELSE IntDigits(k \div 10) \o <<DigitChar(k % 10)>>

\* Line 343: (r / 100).toFixed(2), for r >= 0 cents.
ToFixed2(r) ==
  IntDigits(r \div 100) \o <<".">> \o <<DigitChar((r % 100) \div 10), DigitChar(r % 10)>>

\* amount >= 0 in the place of amount > 0.
EmitsZeroToo(r) == r >= 0

\* Line 339
Emits(r) == r > 0

\* from and to exchanged.
TransactionReversed(debtor, creditor, r) ==
  [from |-> creditor.name, to |-> debtor.name, amount |-> ToFixed2(r)]

\* Lines 340-344
Transaction(debtor, creditor, r) ==
  [from |-> debtor.name, to |-> creditor.name, amount |-> ToFixed2(r)]

\* A tolerance of 0.1 in the place of 0.01.
SettledWithinTenCents(b, n, edge) == Abs(b) < 10 * n \/ (Abs(b) = 10 * n /\ edge)

\* Lines 350 and 354: Math.abs(balance) < 0.01; edge: the double of a
\* balance of exactly one cent is below 0.01.
Settled(b, n, edge) == Abs(b) < n \/ (Abs(b) = n /\ edge)

NoFlags == [tieDown |-> FALSE, edgeC |-> FALSE, edgeD |-> FALSE]

\* The largest double of the model, in cents.
MaxValue == 1000

\* amount * 100 is above the largest double, for an amount in 1/n cent.
Overflows(amt, n) == Abs(amt) > MaxValue * n

\* A double: v is its value when is = "number".
Double(is, v) == [is |-> is, v |-> IF is = "number" THEN v ELSE 0]

\* -x
Negated(x) ==
  IF x.is = "Infinity" THEN Double("-Infinity", 0)
  ELSE IF x.is = "-Infinity" THEN Double("Infinity", 0)
  ELSE Double(x.is, -x.v)

\* x + y: Infinity + -Infinity is NaN.
Sum(x, y) ==
  IF x.is = "NaN" \/ y.is = "NaN" THEN Double("NaN", 0)
  ELSE IF x.is = "number" /\ y.is = "number" THEN Double("number", x.v + y.v)
  ELSE IF x.is = "number" THEN y
  ELSE IF y.is = "number" THEN x
  ELSE IF x.is = y.is THEN x
  ELSE Double("NaN", 0)

\* Line 334 on any two running balances, in 1/n cent: Math.min is NaN when
\* an argument is.
MinBalance(creditor, debtor) ==
  IF creditor.is = "NaN" \/ debtor.is = "NaN" THEN Double("NaN", 0)
  ELSE IF creditor.is = "-Infinity" \/ debtor.is = "Infinity"
    THEN Double("-Infinity", 0)
  ELSE IF creditor.is = "number" /\ debtor.is = "number"
    THEN Double("number", MinAmount(creditor, debtor))
  ELSE IF creditor.is = "number" THEN Double("number", creditor.balance)
  ELSE IF debtor.is = "number" THEN Double("number", -debtor.balance)
  ELSE Double("Infinity", 0)

\* Line 337 on any double, the result in cents: the product of a number can
\* be Infinity, and Math.round leaves Infinity and NaN as they are.
Rounded(x, n, tieDown) ==
  IF x.is # "number" THEN x
  ELSE IF Overflows(x.v, n)
    THEN Double(IF x.v > 0 THEN "Infinity" ELSE "-Infinity", 0)
  ELSE Double("number", RoundCents(x.v, n, tieDown))

\* Line 339 on any double.
EmitsAmount(amount) ==
  \/ amount.is = "Infinity"
  \/ amount.is = "number" /\ Emits(amount.v)

\* Lines 340-344 on any double: Infinity.toFixed(2) is "Infinity".
TransactionOf(debtor, creditor, amount) ==
  IF amount.is = "number" THEN Transaction(debtor, creditor, amount.v)
  ELSE [from |-> debtor.name, to |-> creditor.name,
        amount |-> <<"I", "n", "f", "i", "n", "i", "t", "y">>]

\* Lines 347 and 348: the entry with the amount, of cents, added to its
\* running balance.
Moved(entry, amount, n) ==
  LET b == Sum(Double(entry.is, entry.balance),
               Double(amount.is, amount.v * n))
  IN [name |-> entry.name, balance |-> b.v, is |-> b.is]

\* Lines 350 and 354 on any double: no comparison holds of NaN.
SettledEntry(entry, n, edge) == entry.is = "number" /\ Settled(entry.balance, n, edge)

Step(st, n, f) ==
  LET creditor == Head(st.creditors)
      debtor == Head(st.debtors)
      amount == Rounded(MinBalance(creditor, debtor), n, f.tieDown)
      paid == Moved(creditor, Negated(amount), n)
      paying == Moved(debtor, amount, n)
  IN [creditors |->
        IF SettledEntry(paid, n, f.edgeC) THEN Tail(st.creditors)
        ELSE <<paid>> \o Tail(st.creditors),
      debtors |->
        IF SettledEntry(paying, n, f.edgeD) THEN Tail(st.debtors)
        ELSE <<paying>> \o Tail(st.debtors),
      transactions |->
        IF EmitsAmount(amount)
          THEN Append(st.transactions, TransactionOf(debtor, creditor, amount))
          ELSE st.transactions]

\* The ways the doubles of one iteration can fall.
FlagChoices(st, n) ==
  LET creditor == Head(st.creditors)
      debtor == Head(st.debtors)
      amount0 == MinBalance(creditor, debtor)
  IN IF amount0.is # "number" \/ Overflows(amount0.v, n) THEN {NoFlags}
     ELSE {f \in [tieDown : BOOLEAN, edgeC : BOOLEAN, edgeD : BOOLEAN] :
             LET amount == Rounded(amount0, n, f.tieDown)
             IN /\ f.tieDown => IsTie(amount0.v, n)
                /\ f.edgeC =>
                     LET paid == Moved(creditor, Negated(amount), n)
                     IN paid.is = "number" /\ Abs(paid.balance) = n
                /\ f.edgeD =>
                     LET paying == Moved(debtor, amount, n)
                     IN paying.is = "number" /\ Abs(paying.balance) = n}

LoopDone(st) == st.creditors = <<>> \/ st.debtors = <<>>

RECURSIVE RunLoop(_, _, _, _)
RunLoop(st, n, flags, i) ==
  IF LoopDone(st) THEN st.transactions
  ELSE RunLoop(Step(st, n, IF i <= Len(flags) THEN flags[i] ELSE NoFlags),
               n, flags, i + 1)

(***************************************************************************)
(* The whole function, on given inputs, with the doubles falling as ko and *)
(* flags say: [threw, value].                                              *)
(***************************************************************************)
\* Line 285 without its tests of members.
EarlyReturnNoMemberTest(exp, mem) == exp.t # "array" \/ exp.items = <<>>

\* Line 285
EarlyReturn(exp, mem) ==
  \/ exp.t # "array" \/ exp.items = <<>>
  \/ mem.t # "array" \/ mem.items = <<>>

Returned(value) == [threw |-> FALSE, value |-> value]

Threw == [threw |-> TRUE, value |-> <<>>]

calculateExpenseSplit(exp, mem, ko, flags) ==
  IF EarlyReturn(exp, mem) THEN Returned(<<>>)
  ELSE IF FilterThrows(mem) THEN Threw
  ELSE LET vm == ValidMembers(mem.items)
       IN IF vm = <<>> THEN Returned(<<>>)
          ELSE IF ForEachThrows(exp) THEN Threw
          ELSE LET spent == TotalSpent(exp.items, vm)
                   bal == Balances(vm, spent)
                   order == IF ko \in KeyOrders(vm, spent) THEN ko ELSE ObjectKeys(vm)
               IN Returned(RunLoop([creditors |-> Creditors(order, bal),
                                    debtors |-> Debtors(order, bal),
                                    transactions |-> <<>>],
                                   Len(vm), flags, 1))

(***************************************************************************)
(* The inputs of a call.  Five families of calls are explored: a member   *)
(* list of any entries with a short list of sound expenses; a sound member *)
(* list with expense records of any kind; and up to MaxGroup members who   *)
(* each paid up to MaxPaid cents; and a member who alone paid so much that *)
(* a hundred times the share of the others is above the largest double;    *)
(* and one call with a share of a half cent whose doubles are known.       *)
(***************************************************************************)
MaxMembers == 3

MaxExpenses == 2

MaxCents == 3

MaxGroup == 5

MaxPaid == 10

NamePool == <<"A", "B", "C", "D", "E", "F", "G", "H">>

Name(i) == Str(<<NamePool[i]>>)

SeqsUpTo(S, k) == UNION {[1..len -> S] : len \in 0..k}

\* Entries of a member list: two names, the empty string, a string of
\* white space, null, a number.
MemberPool == {Name(1), Name(2), Str(<<>>), Str(<<" ", "\t">>), Null, Num(7)}

\* Amounts: 0, one and two cents, NaN, a missing amount, a string that is
\* no number.
AmountPool == {Num(0), Num(1), Num(2), NaN, Undefined, Str(<<"a", "b", "c">>)}

\* Expense records: a payer (a member, or not, of the list at hand) or
\* none, with an amount; and null.
ExpensePool ==
  {Obj(payer, amount) : payer \in {Name(1), Name(2), Undefined}, amount \in AmountPool}
    \cup {NullRec}

AnyMembers == {NullArr} \cup {Arr(items) : items \in SeqsUpTo(MemberPool, MaxMembers)}

SoundExpenses ==
  {NullArr, Arr(<<>>)}
    \cup {Arr(<<Obj(Name(1), Num(c))>>) : c \in 1..MaxCents}
    \cup {Arr(<<Obj(Name(2), Num(c)), Obj(Name(1), Num(1))>>) : c \in 1..MaxCents}
    \cup {Arr(<<Obj(Name(1), Num(1)), Obj(Name(2), Num(c)), Obj(Name(1), Num(1))>>) :
            c \in 1..MaxCents}

SoundMembers ==
  {Arr(<<Name(1)>>), Arr(<<Name(1), Name(2)>>), Arr(<<Name(2), Name(3), Name(1)>>)}

AnyExpenses == {NullArr} \cup {Arr(items) : items \in SeqsUpTo(ExpensePool, MaxExpenses)}

\* What each member of a group of n paid, the members who paid more first.
RECURSIVE PaymentsUpTo(_, _)
PaymentsUpTo(n, most) ==
  IF n = 0 THEN {<<>>}
  ELSE UNION {{<<p>> \o rest : rest \in PaymentsUpTo(n - 1, p)} : p \in 0..most}

Payments(n) == PaymentsUpTo(n, MaxPaid)

GroupMembers(n) == Arr([i \in 1..n |-> Name(i)])

RECURSIVE GroupExpenses(_, _)
GroupExpenses(paid, i) ==
  IF i > Len(paid) THEN <<>>
  ELSE (IF paid[i] > 0 THEN <<Obj(Name(i), Num(paid[i]))>> ELSE <<>>)
         \o GroupExpenses(paid, i + 1)

Fresh ==
  /\ pc = "call"
  /\ validMembers = <<>>
  /\ totalSpent = <<>>
  /\ balances = <<>>
  /\ keys = <<>>
  /\ creditors = <<>>
  /\ debtors = <<>>
  /\ transactions = <<>>
  /\ fp = <<>>
  /\ result = <<>>
  /\ earlier = <<>>

\* The store is empty and no function of it has been called.
NoStore ==
  /\ groupDocs = <<>>
  /\ expenseDocs = <<>>
  /\ calls = <<>>

\* The group-detail screen is not on the stack.
NotMounted ==
  /\ screen = [expenses |-> Arr(<<>>), transactions |-> <<>>,
               groupMembers |-> Arr(<<>>), isLoading |-> FALSE, isFocused |-> FALSE]
  /\ stored = {}
  /\ awaiting = {}
  /\ frames = <<>>

InitAnyMembers ==
  /\ members \in AnyMembers
  /\ expenses \in SoundExpenses

InitAnyExpenses ==
  /\ members \in SoundMembers
  /\ expenses \in AnyExpenses

InitGroup ==
  \E n \in 1..MaxGroup : \E paid \in Payments(n) :
    /\ members = GroupMembers(n)
    /\ expenses = Arr(GroupExpenses(paid, 1))

\* The first of n members alone paid n * (MaxValue + c) cents.
InitHuge ==
  \E n \in 2..MaxMembers : \E c \in 1..MaxCents :
    /\ members = GroupMembers(n)
    /\ expenses = Arr(<<Obj(Name(1), Num(n * (MaxValue + c)))>>)

\* A call whose doubles are known: of two members the first alone paid
\* 0.29.  The share of each is 0.145, a half cent, and 0.145 * 100 is
\* 14.499999999999998.
InitHalfCent ==
  /\ members = GroupMembers(2)
  /\ expenses = Arr(<<Obj(Name(1), Num(29))>>)

Init ==
  /\ InitAnyMembers \/ InitAnyExpenses \/ InitGroup \/ InitHuge \/ InitHalfCent
  /\ Fresh
  /\ NotMounted
  /\ NoStore

(***************************************************************************)
(* The steps of a call.                                                    *)
(***************************************************************************)
St == [creditors |-> creditors, debtors |-> debtors, transactions |-> transactions]

\* The list of an earlier call, kept in the place of a new one.
KeptTransactions == transactions

\* Line 314: let transactions = []
NewTransactions == <<>>

\* In a second call the doubles fall as they fell in the first.
SameKeys(ko) == earlier # <<>> => ko = earlier[1].keys

SameFlags(f) == earlier # <<>> => f = earlier[1].fp[Len(fp) + 1]

\* Lines 285-328: from the call to the head of the loop.
Enter ==
  /\ pc = "call"
  /\ UNCHANGED <<expenses, earlier>>
  /\ UNCHANGED <<screenVars, storeVars>>
  /\ IF EarlyReturn(expenses, members)
       THEN /\ pc' = "done"
            /\ result' = <<>>
            /\ UNCHANGED <<members, validMembers, totalSpent, balances, keys,
                           creditors, debtors, transactions, fp>>
     ELSE IF FilterThrows(members)
       THEN /\ pc' = "threw"
            /\ UNCHANGED <<members, validMembers, totalSpent, balances, keys,
                           creditors, debtors, transactions, fp, result>>
     ELSE LET vm == Filter(members).value
          IN /\ members' = Filter(members).self
             /\ validMembers' = vm
             /\ IF vm = <<>>
                  THEN /\ pc' = "done"
                       /\ result' = <<>>
                       /\ UNCHANGED <<totalSpent, balances, keys, creditors, debtors,
                                      transactions, fp>>
                ELSE IF ForEachThrows(expenses)
                  THEN /\ pc' = "threw"
                       /\ UNCHANGED <<totalSpent, balances, keys, creditors,
                                      debtors, transactions, fp, result>>
                ELSE LET spent == TotalSpent(expenses.items, vm)
                         bal == Balances(vm, spent)
                     IN /\ totalSpent' = spent
                        /\ balances' = bal
                        /\ transactions' = NewTransactions
                        /\ fp' = <<>>
                        /\ \E ko \in KeyOrders(vm, spent) :
                             /\ SameKeys(ko)
                             /\ keys' = ko
                             /\ creditors' = Creditors(ko, bal)
                             /\ debtors' = Debtors(ko, bal)
                        /\ pc' = "loop"
                        /\ UNCHANGED result

\* Line 330: the condition of the while holds.
While ==
  /\ pc = "loop"
  /\ ~LoopDone(St)
  /\ pc' = "body"
  /\ UNCHANGED <<expenses, members, validMembers, totalSpent, balances, keys,
                 creditors, debtors, transactions, fp, result, earlier>>
  /\ UNCHANGED <<screenVars, storeVars>>

\* Lines 331-356: one iteration.  fp takes the choice of every iteration
\* that changes a list.
Iterate ==
  /\ pc = "body"
  /\ \E f \in FlagChoices(St, Len(validMembers)) :
       LET next == Step(St, Len(validMembers), f)
       IN /\ SameFlags(f)
          /\ creditors' = next.creditors
          /\ debtors' = next.debtors
          /\ transactions' = next.transactions
          /\ fp' = IF next = St THEN fp ELSE Append(fp, f)
  /\ pc' = "loop"
  /\ UNCHANGED <<expenses, members, validMembers, totalSpent, balances, keys, result,
                 earlier>>
  /\ UNCHANGED <<screenVars, storeVars>>

\* Lines 330 and 359: the loop ends and the list is returned.
Return ==
  /\ pc = "loop"
  /\ LoopDone(St)
  /\ pc' = "done"
  /\ result' = transactions
  /\ UNCHANGED <<expenses, members, validMembers, totalSpent, balances, keys,
                 creditors, debtors, transactions, fp, earlier>>
  /\ UNCHANGED <<screenVars, storeVars>>

\* What the call came to: an exception, or the list returned.
Outcome == [threw |-> pc = "threw", value |-> result]

\* The caller calls once more with the same arguments.  Whatever the first
\* call left behind stays where it is, and earlier keeps its outcome.
CallAgain ==
  /\ pc \in {"done", "threw"}
  /\ earlier = <<>>
  /\ earlier' = <<[keys |-> keys, fp |-> fp, outcome |-> Outcome]>>
  /\ pc' = "call"
  /\ UNCHANGED <<expenses, members, validMembers, totalSpent, balances, keys,
                 creditors, debtors, transactions, fp, result>>
  /\ UNCHANGED <<screenVars, storeVars>>

Next == Enter \/ While \/ Iterate \/ Return

Spec == Init /\ [][Next]_vars

\* Up to MaxMembers members who each paid up to MaxCents cents.
InitSmallGroup ==
  \E n \in 1..MaxMembers : \E paid \in PaymentsUpTo(n, MaxCents) :
    /\ members = GroupMembers(n)
    /\ expenses = Arr(GroupExpenses(paid, 1))

InitShort ==
  /\ InitSmallGroup \/ InitHuge
  /\ Fresh
  /\ NotMounted
  /\ NoStore

\* The call is one synchronous run: a step that can be taken is taken.
FairSpec == InitShort /\ [][Next]_vars /\ WF_vars(Next)

\* Names of which two are array indices: "10", "2" and "A".
OrderNames == {Str(<<"1", "0">>), Str(<<"2">>), Name(1)}

\* The lists of k names of S, no name twice.
Arrangements(S, k) ==
  {list \in [1..k -> S] : \A i, j \in 1..k : i # j => list[i] # list[j]}

\* Member lists of two and of three of the names, in every order.
OrderMembers ==
  {Arr(list) : list \in Arrangements(OrderNames, 2) \cup Arrangements(OrderNames, 3)}

\* Expense records of the names, of 1 to MaxCents cents, and of twice
\* MaxCents.
OrderRecords ==
  {Obj(name, Num(c)) : name \in OrderNames, c \in (1..MaxCents) \cup {2 * MaxCents}}

\* Every order of the members, with up to MaxExpenses records in any order.
InitOrder ==
  /\ members \in OrderMembers
  /\ expenses \in {Arr(items) : items \in SeqsUpTo(OrderRecords, MaxExpenses) \ {<<>>}}
  /\ Fresh
  /\ NotMounted
  /\ NoStore

OrderSpec == InitOrder /\ [][Next]_vars

\* Two calls with the same arguments, one after the other.
InitTwice ==
  /\ InitAnyMembers \/ InitAnyExpenses \/ InitSmallGroup
  /\ Fresh
  /\ NotMounted
  /\ NoStore

NextTwice == Next \/ CallAgain

TwiceSpec == InitTwice /\ [][NextTwice]_vars

(***************************************************************************)
(* The group-detail screen, src/screens/GroupDetailsScreen.js.  Its state  *)
(* is screen; stored holds the ids of the expenses the store has for the   *)
(* group; awaiting holds the calls of the store a handler waits for, each  *)
(* with what its closure captured; frames is the queue of the callbacks    *)
(* given to requestAnimationFrame, which run in the order they were given. *)
(* A call of calculateExpenseSplit runs to its end within one step, so it  *)
(* is the operator here.  A read of the store and the delivery of what it  *)
(* read are one step.                                                      *)
(***************************************************************************)
MaxStored == 2

MaxAwaiting == 2

MaxFrames == 1

\* The expense stored under id i: member i paid 6 * i cents, so that every
\* share among one, two or three members is a whole number of cents and no
\* double of a call is on a boundary.
StoredExpense(i) == Obj(Name(i), Num(6 * i))

RECURSIVE ExpensesFrom(_, _)
ExpensesFrom(ids, i) ==
  IF i > MaxStored THEN <<>>
  ELSE (IF i \in ids THEN <<StoredExpense(i)>> ELSE <<>>) \o ExpensesFrom(ids, i + 1)

\* getGroupExpenses: the expenses of the group, as an array.
getGroupExpenses(ids) == Arr(ExpensesFrom(ids, 1))

\* Lines 114, 152, 257 and 291: calculateExpenseSplit on the arguments of
\* the closure, the keys in their order and no double on a boundary.  The
\* function returns an array or throws, so `|| []` changes nothing.
SplitData(exp, mem) == calculateExpenseSplit(exp, mem, <<>>, <<>>)

\* The names typed into the rename field: the name of a member, a new
\* name, and white space.
TypedNames == {Name(1), Name(MaxStored + 1), Str(<<" ">>)}

\* A call of getGroupExpenses made by the effect with groupMembers = mem.
Fetching(mem) == [op |-> "getGroupExpenses", id |-> 0, expenses |-> Arr(<<>>),
                  groupMembers |-> mem, updatedMembers |-> mem, index |-> 0]

Deleting(id, mem) == [op |-> "deleteExpense", id |-> id, expenses |-> Arr(<<>>),
                      groupMembers |-> mem, updatedMembers |-> mem, index |-> 0]

\* index is editingMemberIndex, or the index removeMember was called with.
Renaming(exp, mem, updated, index) ==
  [op |-> "rename", id |-> 0, expenses |-> exp,
   groupMembers |-> mem, updatedMembers |-> updated, index |-> index]

Removing(exp, mem, updated, index) ==
  [op |-> "remove", id |-> 0, expenses |-> exp,
   groupMembers |-> mem, updatedMembers |-> updated, index |-> index]

\* A callback given to requestAnimationFrame.
Callback(exp, mem, loaded) == [expenses |-> exp, groupMembers |-> mem, loaded |-> loaded]

\* Room for k more awaited calls, none of them awaited already.
CanAwait(tasks) ==
  /\ tasks \cap awaiting = {}
  /\ Cardinality(awaiting) + Cardinality(tasks) <= MaxAwaiting

\* The screen right after it was mounted in focus with the members of the
\* route, those who may have paid a stored expense: the effect of lines
\* 103-135 has run once.
InitScreen ==
  /\ expenses = Arr(<<>>)
  /\ members = Arr(<<>>)
  /\ Fresh
  /\ NoStore
  /\ stored \in SUBSET (1..MaxStored)
  /\ screen = [expenses |-> Arr(<<>>), transactions |-> <<>>,
               groupMembers |-> GroupMembers(MaxStored), isLoading |-> TRUE,
               isFocused |-> TRUE]
  /\ awaiting = {Fetching(GroupMembers(MaxStored))}
  /\ frames = <<>>

\* The screen loses focus.
Blur ==
  /\ screen.isFocused
  /\ screen' = [screen EXCEPT !.isFocused = FALSE]
  /\ UNCHANGED <<stored, awaiting, frames, callVars, storeVars>>

\* Lines 103-135, on focus: the effect runs and calls getGroupExpenses.
Focus ==
  /\ ~screen.isFocused
  /\ CanAwait({Fetching(screen.groupMembers)})
  /\ screen' = [screen EXCEPT !.isFocused = TRUE, !.isLoading = TRUE]
  /\ awaiting' = awaiting \cup {Fetching(screen.groupMembers)}
  /\ UNCHANGED <<stored, frames, callVars, storeVars>>

\* Lines 108-119: getGroupExpenses returns (always an array: it catches
\* its errors and returns []).
fetchExpenses ==
  \E task \in awaiting :
    /\ task.op = "getGroupExpenses"
    /\ Len(frames) < MaxFrames
    /\ LET expensesData == getGroupExpenses(stored)
       IN /\ screen' = [screen EXCEPT !.expenses = expensesData]
          /\ frames' = Append(frames, Callback(expensesData, task.groupMembers, TRUE))
    /\ awaiting' = awaiting \ {task}
    /\ UNCHANGED <<stored, callVars, storeVars>>

\* Lines 113-117 and 151-154: the next callback of the queue runs.
AnimationFrame ==
  /\ frames # <<>>
  /\ LET callback == Head(frames)
         splitData == SplitData(callback.expenses, callback.groupMembers)
     IN screen' = IF splitData.threw THEN screen
                  ELSE [screen EXCEPT !.transactions = splitData.value,
                                      !.isLoading = IF callback.loaded THEN FALSE ELSE @]
  /\ frames' = Tail(frames)
  /\ UNCHANGED <<stored, awaiting, callVars, storeVars>>

\* Lines 138-145: Delete is pressed on an expense of the list.
handleDeleteExpense ==
  \E id \in 1..MaxStored :
    /\ screen.isFocused
    /\ \E i \in 1..Len(screen.expenses.items) : screen.expenses.items[i] = StoredExpense(id)
    /\ CanAwait({Deleting(id, screen.groupMembers)})
    /\ awaiting' = awaiting \cup {Deleting(id, screen.groupMembers)}
    /\ UNCHANGED <<screen, stored, frames, callVars, storeVars>>

\* Lines 145-160: deleteExpense returns the expenses left, or throws when
\* the expense is no longer there.
DeleteReturns ==
  \E task \in awaiting :
    /\ task.op = "deleteExpense"
    /\ awaiting' = awaiting \ {task}
    /\ IF task.id \in stored
         THEN /\ Len(frames) < MaxFrames
              /\ stored' = stored \ {task.id}
              /\ LET updatedExpenses == getGroupExpenses(stored \ {task.id})
                 IN /\ screen' = [screen EXCEPT !.expenses = updatedExpenses]
                    /\ frames' = Append(frames,
                                        Callback(updatedExpenses, task.groupMembers, FALSE))
       ELSE UNCHANGED <<screen, stored, frames>>
    /\ UNCHANGED <<callVars, storeVars>>

\* Lines 240-253, with the effect of lines 103-135 that the new member list
\* sets off.
saveRenamedMember ==
  \E editingMemberIndex \in 1..Len(screen.groupMembers.items) :
  \E editingMemberName \in TypedNames :
    /\ screen.isFocused
    /\ IF Trim(editingMemberName.s) # <<>>
         THEN LET updatedMembers ==
                    Arr([screen.groupMembers.items EXCEPT
                           ![editingMemberIndex] = Str(Trim(editingMemberName.s))])
                  tasks == {Renaming(screen.expenses, screen.groupMembers, updatedMembers,
                                     editingMemberIndex),
                            Fetching(updatedMembers)}
              IN /\ CanAwait(tasks)
                 /\ screen' = [screen EXCEPT !.groupMembers = updatedMembers,
                                             !.isLoading = TRUE]
                 /\ awaiting' = awaiting \cup tasks
       ELSE UNCHANGED <<screen, awaiting>>
    /\ UNCHANGED <<stored, frames, callVars, storeVars>>

\* The split of line 257 on the member list the handler started from.
RenameReturnsOldMembers ==
  \E task \in awaiting : \E success \in BOOLEAN :
    /\ task.op = "rename"
    /\ awaiting' = awaiting \ {task}
    /\ LET splitData == SplitData(task.expenses, task.groupMembers)
       IN screen' = IF success /\ ~splitData.threw
                      THEN [screen EXCEPT !.transactions = splitData.value]
                    ELSE screen
    /\ UNCHANGED <<stored, frames, callVars, storeVars>>

\* Lines 253-265: updateGroupMembers returns.
RenameReturns ==
  \E task \in awaiting : \E success \in BOOLEAN :
    /\ task.op = "rename"
    /\ awaiting' = awaiting \ {task}
    /\ LET splitData == SplitData(task.expenses, task.updatedMembers)
       IN screen' = IF success /\ ~splitData.threw
                      THEN [screen EXCEPT !.transactions = splitData.value]
                    ELSE screen
    /\ UNCHANGED <<stored, frames, callVars, storeVars>>

\* Lines 274-286, the removal confirmed as the dialog appears, with the
\* effect of lines 103-135.
removeMember ==
  \E index \in 1..Len(screen.groupMembers.items) :
    /\ screen.isFocused
    /\ LET kept == SelectSeq([i \in 1..Len(screen.groupMembers.items) |->
                                [at |-> i, member |-> screen.groupMembers.items[i]]],
                             LAMBDA e : e.at # index)
           updatedMembers == Arr([i \in 1..Len(kept) |-> kept[i].member])
           tasks == {Removing(screen.expenses, screen.groupMembers, updatedMembers, index),
                     Fetching(updatedMembers)}
       IN /\ CanAwait(tasks)
          /\ screen' = [screen EXCEPT !.groupMembers = updatedMembers, !.isLoading = TRUE]
          /\ awaiting' = awaiting \cup tasks
    /\ UNCHANGED <<stored, frames, callVars, storeVars>>

\* Lines 286-303: updateGroupMembers returns; when it failed, or the
\* calculation threw, the member list goes back to the one captured, and
\* the effect runs on it.
RemoveReturns ==
  \E task \in awaiting : \E success \in BOOLEAN :
    /\ task.op = "remove"
    /\ IF success /\ ~SplitData(task.expenses, task.updatedMembers).threw
         THEN /\ screen' = [screen EXCEPT !.transactions =
                              SplitData(task.expenses, task.updatedMembers).value]
              /\ awaiting' = awaiting \ {task}
       ELSE IF screen.isFocused
         THEN /\ Fetching(task.groupMembers) \notin awaiting
              /\ screen' = [screen EXCEPT !.groupMembers = task.groupMembers,
                                          !.isLoading = TRUE]
              /\ awaiting' = (awaiting \ {task}) \cup {Fetching(task.groupMembers)}
       ELSE /\ screen' = [screen EXCEPT !.groupMembers = task.groupMembers]
            /\ awaiting' = awaiting \ {task}
    /\ UNCHANGED <<stored, frames, callVars, storeVars>>

NextScreen ==
  \/ Blur \/ Focus \/ fetchExpenses \/ AnimationFrame
  \/ handleDeleteExpense \/ DeleteReturns
  \/ saveRenamedMember \/ RenameReturns
  \/ removeMember \/ RemoveReturns

ScreenSpec == InitScreen /\ [][NextScreen]_vars

(***************************************************************************)
(* The store: the groups and expenses collections, as the functions of     *)
(* src/firebase/nativeConfig.js read and write them.  A document id is the *)
(* place of the document in its collection; a deleted document leaves its  *)
(* place empty, and addDoc takes a new place.  A call takes one step for   *)
(* each await: what the store does, and the code up to the next await.     *)
(* Calls of several clients interleave between their steps.  calls keeps   *)
(* every call, also after it has returned.                                 *)
(***************************************************************************)
MaxGroups == 1

MaxDocs == 2

MaxCalls == 3

\* The ids of signed-in users.
Users == {"u1", "u2"}

\* What a caller passes as userId: a user's id, or nothing.
UserArgs == Users \cup {""}

GroupIds == 1..MaxGroups

ExpenseIds == 1..MaxDocs

\* Amounts of an expense, in cents: as added, and as updated.
AddedAmount == 1

UpdatedAmount == 2

\* No document at a place: exists() is false.
Missing == [exists |-> FALSE]

\* Lines 123-129: the document createGroup writes.
GroupDoc(userId) == [exists |-> TRUE, createdBy |-> userId]

\* Lines 261-265: the document addExpense writes.
ExpenseDoc(groupId, amount, userId) ==
  [exists |-> TRUE, groupId |-> groupId, amount |-> amount, userId |-> userId]

\* doc.data().name: undefined when the document has no such field.
Field(document, name) ==
  IF name \in DOMAIN document THEN document[name] ELSE "undefined"

\* getDoc(doc(db, collection, id))
GetDoc(collection, id) ==
  IF id \in DOMAIN collection THEN collection[id] ELSE Missing

\* deleteDoc: succeeds also when nothing is there.
DeleteDoc(collection, id) ==
  IF id \in DOMAIN collection THEN [collection EXCEPT ![id] = Missing] ELSE collection

\* query(collection(db, "expenses"), where("groupId", "==", groupId))
ExpensesIn(collection, groupId) ==
  {id \in DOMAIN collection :
     collection[id].exists /\ collection[id].groupId = groupId}

ExpensesOf(groupId) == ExpensesIn(expenseDocs, groupId)

\* A call that was made, with its arguments, and what it has read so far.
Call(op, at, groupId, id, userId) ==
  [op |-> op, pc |-> at, groupId |-> groupId, id |-> id, userId |-> userId,
   expenseDoc |-> Missing, groupDoc |-> Missing, snapshot |-> {}, result |-> "none"]

Returns(call, value) == [call EXCEPT !.pc = "returned", !.result = value]

\* Groups that createGroup has written, each by some user; no expense yet.
InitStore ==
  /\ expenses = Arr(<<>>)
  /\ members = Arr(<<>>)
  /\ Fresh
  /\ NotMounted
  /\ groupDocs \in [GroupIds -> {GroupDoc(userId) : userId \in Users}]
  /\ expenseDocs = <<>>
  /\ calls = <<>>

\* Lines 251-258: addExpense is called.
CallAddExpense ==
  \E groupId \in GroupIds : \E userId \in UserArgs :
    /\ Len(calls) < MaxCalls
    /\ calls' = Append(calls,
                       IF userId = ""
                         THEN Returns(Call("addExpense", "start", groupId, 0, userId), "error")
                       ELSE Call("addExpense", "addDoc", groupId, 0, userId))
    /\ UNCHANGED <<groupDocs, expenseDocs, callVars, screenVars>>

\* Lines 260-275: addDoc writes the expense and the call returns its id.
AddExpenseAddDoc ==
  \E c \in DOMAIN calls :
    /\ calls[c].op = "addExpense" /\ calls[c].pc = "addDoc"
    /\ Len(expenseDocs) < MaxDocs
    /\ expenseDocs' = Append(expenseDocs,
                             ExpenseDoc(calls[c].groupId, AddedAmount, calls[c].userId))
    /\ calls' = [calls EXCEPT ![c] = [Returns(@, "id") EXCEPT !.id = Len(expenseDocs) + 1]]
    /\ UNCHANGED <<groupDocs, callVars, screenVars>>

\* Lines 368-371: deleteGroup is called.
CallDeleteGroup ==
  \E groupId \in GroupIds : \E userId \in UserArgs :
    /\ Len(calls) < MaxCalls
    /\ calls' = Append(calls,
                       IF userId = ""
                         THEN Returns(Call("deleteGroup", "start", groupId, 0, userId), "false")
                       ELSE Call("deleteGroup", "getDoc", groupId, 0, userId))
    /\ UNCHANGED <<groupDocs, expenseDocs, callVars, screenVars>>

\* Lines 375-385: the group is read and its creator compared.
DeleteGroupGetDoc ==
  \E c \in DOMAIN calls :
    /\ calls[c].op = "deleteGroup" /\ calls[c].pc = "getDoc"
    /\ LET groupDoc == GetDoc(groupDocs, calls[c].groupId)
       IN calls' = [calls EXCEPT ![c] =
                      IF ~groupDoc.exists THEN Returns(@, "false")
                      ELSE IF Field(groupDoc, "createdBy") # @.userId THEN Returns(@, "false")
                      ELSE [@ EXCEPT !.pc = "getDocs", !.groupDoc = groupDoc]]
    /\ UNCHANGED <<groupDocs, expenseDocs, callVars, screenVars>>

\* Lines 388-389: the expenses of the group are read.
DeleteGroupGetDocs ==
  \E c \in DOMAIN calls :
    /\ calls[c].op = "deleteGroup" /\ calls[c].pc = "getDocs"
    /\ calls' = [calls EXCEPT ![c] = [@ EXCEPT !.pc = "deleteDocs",
                                                !.snapshot = ExpensesOf(calls[c].groupId)]]
    /\ UNCHANGED <<groupDocs, expenseDocs, callVars, screenVars>>

\* Lines 391-392: every expense that was read is deleted.
DeleteGroupDeleteDocs ==
  \E c \in DOMAIN calls :
    /\ calls[c].op = "deleteGroup" /\ calls[c].pc = "deleteDocs"
    /\ expenseDocs' = [id \in DOMAIN expenseDocs |->
                         IF id \in calls[c].snapshot THEN Missing ELSE expenseDocs[id]]
    /\ calls' = [calls EXCEPT ![c] = [@ EXCEPT !.pc = "deleteDoc"]]
    /\ UNCHANGED <<groupDocs, callVars, screenVars>>

\* Lines 394-397: the group is deleted and the call returns true.
DeleteGroupDeleteDoc ==
  \E c \in DOMAIN calls :
    /\ calls[c].op = "deleteGroup" /\ calls[c].pc = "deleteDoc"
    /\ groupDocs' = DeleteDoc(groupDocs, calls[c].groupId)
    /\ calls' = [calls EXCEPT ![c] = Returns(@, "true")]
    /\ UNCHANGED <<expenseDocs, callVars, screenVars>>

\* Lines 410-417: deleteExpense is called.
CallDeleteExpense ==
  \E id \in ExpenseIds : \E groupId \in GroupIds : \E userId \in UserArgs :
    /\ Len(calls) < MaxCalls
    /\ calls' = Append(calls,
                       IF userId = ""
                         THEN Returns(Call("deleteExpense", "start", groupId, id, userId), "error")
                       ELSE Call("deleteExpense", "getExpense", groupId, id, userId))
    /\ UNCHANGED <<groupDocs, expenseDocs, callVars, screenVars>>

\* Line 431: the group is there, and the caller's id is the userId of the
\* expense or the userId of the group.
DeleteAllowed(call, groupDoc) ==
  /\ groupDoc.exists
  /\ \/ Field(call.expenseDoc, "userId") = call.userId
     \/ Field(groupDoc, "userId") = call.userId

\* Line 484: the caller's id is the userId of the expense or the createdBy
\* of the group.
UpdateAllowed(call, groupDoc) ==
  \/ Field(call.expenseDoc, "userId") = call.userId
  \/ Field(groupDoc, "createdBy") = call.userId

\* Lines 421-426 and 467-472: the expense is read.
GetExpense ==
  \E c \in DOMAIN calls :
    /\ calls[c].op \in {"deleteExpense", "updateExpense"} /\ calls[c].pc = "getExpense"
    /\ LET expenseDoc == GetDoc(expenseDocs, calls[c].id)
       IN calls' = [calls EXCEPT ![c] =
                      IF ~expenseDoc.exists THEN Returns(@, "error")
                      ELSE [@ EXCEPT !.pc = "getGroup", !.expenseDoc = expenseDoc]]
    /\ UNCHANGED <<groupDocs, expenseDocs, callVars, screenVars>>

\* Lines 428-433: the group is read and the permission tested.
DeleteExpenseGetGroup ==
  \E c \in DOMAIN calls :
    /\ calls[c].op = "deleteExpense" /\ calls[c].pc = "getGroup"
    /\ LET groupDoc == GetDoc(groupDocs, calls[c].groupId)
       IN calls' = [calls EXCEPT ![c] =
                      IF DeleteAllowed(@, groupDoc)
                        THEN [@ EXCEPT !.pc = "deleteDoc", !.groupDoc = groupDoc]
                      ELSE Returns([@ EXCEPT !.groupDoc = groupDoc], "error")]
    /\ UNCHANGED <<groupDocs, expenseDocs, callVars, screenVars>>

\* Line 435: the expense is deleted.
DeleteExpenseDeleteDoc ==
  \E c \in DOMAIN calls :
    /\ calls[c].op = "deleteExpense" /\ calls[c].pc = "deleteDoc"
    /\ expenseDocs' = DeleteDoc(expenseDocs, calls[c].id)
    /\ calls' = [calls EXCEPT ![c] = [@ EXCEPT !.pc = "getGroupExpenses"]]
    /\ UNCHANGED <<groupDocs, callVars, screenVars>>

\* Lines 437-445: the expenses left are read and returned.
DeleteExpenseReturns ==
  \E c \in DOMAIN calls :
    /\ calls[c].op = "deleteExpense" /\ calls[c].pc = "getGroupExpenses"
    /\ calls' = [calls EXCEPT ![c] =
                   Returns([@ EXCEPT !.snapshot = ExpensesOf(calls[c].groupId)], "updatedExpenses")]
    /\ UNCHANGED <<groupDocs, expenseDocs, callVars, screenVars>>

\* Lines 457-464: updateExpense is called.
CallUpdateExpense ==
  \E id \in ExpenseIds : \E groupId \in GroupIds : \E userId \in UserArgs :
    /\ Len(calls) < MaxCalls
    /\ calls' = Append(calls,
                       IF userId = ""
                         THEN Returns(Call("updateExpense", "start", groupId, id, userId), "error")
                       ELSE Call("updateExpense", "getExpense", groupId, id, userId))
    /\ UNCHANGED <<groupDocs, expenseDocs, callVars, screenVars>>

\* Lines 474-486: the group is read and the permission tested.
UpdateExpenseGetGroup ==
  \E c \in DOMAIN calls :
    /\ calls[c].op = "updateExpense" /\ calls[c].pc = "getGroup"
    /\ LET groupDoc == GetDoc(groupDocs, calls[c].groupId)
       IN calls' = [calls EXCEPT ![c] =
                      IF groupDoc.exists /\ UpdateAllowed(@, groupDoc)
                        THEN [@ EXCEPT !.pc = "updateDoc", !.groupDoc = groupDoc]
                      ELSE Returns([@ EXCEPT !.groupDoc = groupDoc], "error")]
    /\ UNCHANGED <<groupDocs, expenseDocs, callVars, screenVars>>

\* Lines 489-502: updateDoc writes the new fields; it fails when the
\* document is no longer there.
UpdateExpenseUpdateDoc ==
  \E c \in DOMAIN calls :
    /\ calls[c].op = "updateExpense" /\ calls[c].pc = "updateDoc"
    /\ IF GetDoc(expenseDocs, calls[c].id).exists
         THEN /\ expenseDocs' = [expenseDocs EXCEPT ![calls[c].id].amount = UpdatedAmount]
              /\ calls' = [calls EXCEPT ![c] = Returns(@, "true")]
       ELSE /\ UNCHANGED expenseDocs
            /\ calls' = [calls EXCEPT ![c] = Returns(@, "error")]
    /\ UNCHANGED <<groupDocs, callVars, screenVars>>

NextStore ==
  \/ CallAddExpense \/ AddExpenseAddDoc
  \/ CallDeleteGroup \/ DeleteGroupGetDoc \/ DeleteGroupGetDocs
  \/ DeleteGroupDeleteDocs \/ DeleteGroupDeleteDoc
  \/ CallDeleteExpense \/ GetExpense \/ DeleteExpenseGetGroup
  \/ DeleteExpenseDeleteDoc \/ DeleteExpenseReturns
  \/ CallUpdateExpense \/ UpdateExpenseGetGroup \/ UpdateExpenseUpdateDoc

StoreSpec == InitStore /\ [][NextStore]_vars

(***************************************************************************)
(* What the claims speak of, read off the inputs and the returned list.    *)
(***************************************************************************)
\* parseFloat of an amount string "d...d.dd", in cents.
ParseCents(str) ==
  LET dot == CHOOSE i \in 1..Len(str) : str[i] = "."
  IN 100 * DigitsValue(SubSeq(str, 1, dot - 1), 0)
       + DigitsValue(SubSeq(str, dot + 1, Len(str)), 0)

RECURSIVE SumAmounts(_, _, _)
SumAmounts(txs, m, toward) ==
  IF txs = <<>> THEN 0
  ELSE (IF (IF toward THEN Head(txs).to ELSE Head(txs).from) = m
          THEN ParseCents(Head(txs).amount) ELSE 0)
         + SumAmounts(Tail(txs), m, toward)

\* Cents the returned transactions bring to m, and take from m.
Received(m) == SumAmounts(result, m, TRUE)

PaidOut(m) == SumAmounts(result, m, FALSE)

NamingTo(m) == Cardinality({i \in 1..Len(result) : result[i].to = m})

NamingFrom(m) == Cardinality({i \in 1..Len(result) : result[i].from = m})

\* A blank member entry: the empty string, or white space only.
IsBlank(v) == v.t = "string" /\ \A i \in 1..Len(v.s) : v.s[i] \in WhiteSpace

\* A valid input: distinct member names, and expenses of whole cents, more
\* than none, each paid by a member.
ValidInput ==
  /\ members.t = "array" /\ expenses.t = "array"
  /\ \A i \in 1..Len(members.items) :
       /\ members.items[i].t = "string" /\ ~IsBlank(members.items[i])
       /\ \A j \in 1..Len(members.items) : members.items[i] = members.items[j] => i = j
  /\ \A i \in 1..Len(expenses.items) :
       /\ expenses.items[i].t = "object"
       /\ expenses.items[i].amount.t = "number" /\ expenses.items[i].amount.n > 0
       /\ Includes(members.items, expenses.items[i].payer)

RECURSIVE SumExpenses(_, _, _)
SumExpenses(items, m, all) ==
  IF items = <<>> THEN 0
  ELSE (IF all \/ Head(items).payer = m THEN Head(items).amount.n ELSE 0)
         + SumExpenses(Tail(items), m, all)

GroupSize == Len(members.items)

\* Of a valid input: total paid minus fair share, times the group size.
OriginalBalance(m) ==
  GroupSize * SumExpenses(expenses.items, m, FALSE)
    - SumExpenses(expenses.items, m, TRUE)

MemberNames == {members.items[i] : i \in 1..Len(members.items)}

StillListed(m) ==
  \/ \E i \in 1..Len(creditors) : creditors[i].name = m
  \/ \E i \in 1..Len(debtors) : debtors[i].name = m

RECURSIVE Forced(_, _)
Forced(st, n) ==
  \/ LoopDone(st)
  \/ /\ FlagChoices(st, n) = {NoFlags}
     /\ \/ Step(st, n, NoFlags) = st
        \/ Forced(Step(st, n, NoFlags), n)

\* No double of the call was on a boundary: the run is the only one the
\* inputs allow, and it is the run of the code.
NoDoubt ==
  /\ pc = "done"
  /\ validMembers # <<>> => 
       /\ KeyOrders(validMembers, totalSpent) = {keys}
       /\ Forced([creditors |-> Creditors(keys, balances),
                  debtors |-> Debtors(keys, balances),
                  transactions |-> <<>>], Len(validMembers))

\* C1, as stated (for the runs without doubt): on a valid input, what the returned transactions bring to
\* a creditor differs from the creditor's original balance by at most 0.01
\* times the number of transactions naming the creditor (0 when none names
\* it), and what they take from a debtor differs from the debt likewise.
C1_ConservationPerTransaction ==
  (pc = "done" /\ ValidInput /\ NoDoubt) =>
    \A m \in MemberNames :
      /\ OriginalBalance(m) > 0 =>
           Abs(GroupSize * Received(m) - OriginalBalance(m)) <= GroupSize * NamingTo(m)
      /\ OriginalBalance(m) < 0 =>
           Abs(GroupSize * PaidOut(m) + OriginalBalance(m)) <= GroupSize * NamingFrom(m)

\* C1, amended: the difference is at most 0.01 for a creditor or debtor the
\* loop removed from its list, and at most 0.01 times (the number of
\* members - 1) for any creditor or debtor, whatever the number of
\* transactions naming it.
C1_ConservationPerMember ==
  (pc = "done" /\ ValidInput) =>
    \A m \in MemberNames :
      /\ OriginalBalance(m) > 0 =>
           /\ Abs(GroupSize * Received(m) - OriginalBalance(m)) <= GroupSize * (GroupSize - 1)
           /\ ~StillListed(m) =>
                Abs(GroupSize * Received(m) - OriginalBalance(m)) <= GroupSize
      /\ OriginalBalance(m) < 0 =>
           /\ Abs(GroupSize * PaidOut(m) + OriginalBalance(m)) <= GroupSize * (GroupSize - 1)
           /\ ~StillListed(m) =>
                Abs(GroupSize * PaidOut(m) + OriginalBalance(m)) <= GroupSize

\* A creditor named by a transaction is still listed, owed more than a
\* cent, when the debtors have run out.
C1_Witness ==
  /\ pc = "done" /\ ValidInput
  /\ \E m \in MemberNames :
       /\ StillListed(m) /\ NamingTo(m) >= 1
       /\ GroupSize * Received(m) < OriginalBalance(m) - GroupSize

\* The member names are distinct and every balance is a number.
DistinctMembers ==
  /\ validMembers # <<>>
  /\ \A i, j \in 1..Len(validMembers) : validMembers[i] = validMembers[j] => i = j
  /\ \A m \in DOMAIN balances : ~balances[m].nan

\* The balance of m once every returned transaction is applied, in 1/n cent.
AfterSettling(m) ==
  balances[m].b - Len(validMembers) * Received(m) + Len(validMembers) * PaidOut(m)

\* C2, as stated (for the runs without doubt): applying the returned
\* transactions leaves the balance of every valid member within 0.01 of
\* zero, for every expense list and every list of distinct member names.
C2_SettlesWithinACent ==
  (pc = "done" /\ DistinctMembers /\ NoDoubt) =>
    \A m \in DOMAIN balances : Abs(AfterSettling(m)) <= Len(validMembers)

\* C2, amended: applying the returned transactions leaves the balance of
\* every valid member within 0.01 times (the number of valid members - 1)
\* of zero, and within 0.01 of zero for every member that is not left in
\* the creditor or debtor list when the loop ends.
C2_SettlesWithinGroupTolerance ==
  (pc = "done" /\ DistinctMembers) =>
    \A m \in DOMAIN balances :
      /\ Abs(AfterSettling(m)) <= Len(validMembers) * (Len(validMembers) - 1)
      /\ ~StillListed(m) => Abs(AfterSettling(m)) <= Len(validMembers)

\* Transactions were returned, and a member left in its list is more than a
\* cent from zero after them.
C2_Witness ==
  /\ pc = "done" /\ DistinctMembers /\ result # <<>>
  /\ \E m \in DOMAIN balances :
       StillListed(m) /\ Abs(AfterSettling(m)) > Len(validMembers)

RECURSIVE SumBalances(_)
SumBalances(S) ==
  IF S = {} THEN 0
  ELSE LET m == CHOOSE x \in S : TRUE
       IN balances[m].b + SumBalances(S \ {m})

\* The largest number of groups the members of S split into with the
\* balances of every group summing to zero.
RECURSIVE ZeroSumGroups(_)
ZeroSumGroups(S) ==
  IF S = {} THEN 0
  ELSE LET m == CHOOSE x \in S : TRUE
           with == {T \in SUBSET S : m \in T /\ SumBalances(T) = 0}
           counts == {1 + ZeroSumGroups(S \ T) : T \in with}
       IN CHOOSE k \in counts : \A j \in counts : j <= k

Unsettled0 == {m \in DOMAIN balances : balances[m].b # 0}

\* The fewest directed payments that bring every balance to zero: settling
\* a group of k members whose balances sum to zero takes k - 1 payments, and
\* no payment set does better than the finest split into such groups.
FewestPayments == Cardinality(Unsettled0) - ZeroSumGroups(Unsettled0)

WholeCentBalances ==
  \A m \in DOMAIN balances : balances[m].b % Len(validMembers) = 0

\* C3 (for the runs without doubt): when the balances are whole cents, no
\* set of directed payments with fewer entries than the returned list
\* brings every balance to zero.
C3_MinimalCardinality ==
  (pc = "done" /\ DistinctMembers /\ WholeCentBalances /\ NoDoubt) =>
    Len(result) <= FewestPayments

\* The members with a positive, and with a negative, balance.
PositiveBalances == {m \in DOMAIN balances : ~balances[m].nan /\ balances[m].b > 0}

NegativeBalances == {m \in DOMAIN balances : ~balances[m].nan /\ balances[m].b < 0}

TwoDecimals(str) ==
  /\ Len(str) >= 4
  /\ str[Len(str) - 2] = "."
  /\ \A i \in 1..Len(str) : i # Len(str) - 2 => IsDigit(str[i])

C6_FromDebtorToCreditor ==
  \A i \in 1..Len(transactions) :
    LET tx == transactions[i]
    IN /\ tx.from.t = "string" /\ ~IsBlank(tx.from) /\ Includes(members.items, tx.from)
       /\ tx.to.t = "string" /\ ~IsBlank(tx.to) /\ Includes(members.items, tx.to)
       /\ tx.from \in NegativeBalances
       /\ tx.to \in PositiveBalances
       /\ tx.from # tx.to

\* Transactions are returned for a list with a member whose balance is 0.
C6_Witness ==
  /\ pc = "done" /\ result # <<>>
  /\ \E m \in DOMAIN balances : balances[m].b = 0

NullOrEmpty(arr) == arr.t = "null" \/ arr.items = <<>>

\* C7: with expenses null or empty, or members null or empty, the call
\* returns the empty list and raises nothing.
C7_EmptyInputsReturnEmpty ==
  (pc # "call" /\ (NullOrEmpty(expenses) \/ NullOrEmpty(members))) =>
    (pc = "done" /\ result = <<>>)

\* The call has returned for a null member list and expenses that are some.
C7_Witness == pc = "done" /\ members.t = "null" /\ expenses.items # <<>>

NotBlank(v) == ~IsBlank(v)

\* C8: blank entries of the member list are no members: the call does what
\* it does on the list without them, and returns the empty list when the
\* list has no other entries.
C8_BlankEntriesAreNoMembers ==
  (pc \in {"done", "threw"} /\ members.t = "array") =>
    LET stripped == SelectSeq(members.items, NotBlank)
    IN IF stripped = <<>> THEN pc = "done" /\ result = <<>>
       ELSE Outcome = calculateExpenseSplit(expenses, Arr(stripped), keys, fp)

\* Transactions are returned for a member list with a blank entry.
C8_Witness ==
  /\ pc = "done" /\ result # <<>>
  /\ \E i \in 1..Len(members.items) : IsBlank(members.items[i])

\* An expense that counts for nothing: no payer, a payer that is not a
\* non-blank name of the member list, or an amount that is missing, 0 or NaN.
Ignorable(expense) ==
  /\ expense.t = "object"
  /\ \/ expense.payer.t \in {"undefined", "null"}
     \/ ~(NotBlank(expense.payer) /\ Includes(members.items, expense.payer))
     \/ expense.amount.t \in {"undefined", "null", "NaN"}
     \/ expense.amount = Num(0)

Counted(expense) == ~Ignorable(expense)

MemberStrings ==
  members.t = "array" /\ \A i \in 1..Len(members.items) : members.items[i].t = "string"

\* C9: for every list of member names, the call on a list of expenses does
\* what it does on the list without the expenses that count for nothing, if
\* one record is left, and returns the empty list if none is.
C9_IgnoredExpensesCountForNothing ==
  (pc \in {"done", "threw"} /\ MemberStrings /\ expenses.t = "array"
     /\ expenses.items # <<>>) =>
    LET kept == SelectSeq(expenses.items, Counted)
    IN IF kept = <<>> THEN pc = "done" /\ result = <<>>
       ELSE Outcome = calculateExpenseSplit(Arr(kept), members, keys, fp)

\* Transactions are returned for expenses of which one counts for nothing.
C9_Witness ==
  /\ pc = "done" /\ result # <<>>
  /\ \E i \in 1..Len(expenses.items) : Ignorable(expenses.items[i])

\* C10: the call raises no exception, whatever it is given.
C10_NeverThrows == pc # "threw"

\* C11: the matching loop terminates for every input: once the loop is
\* reached, one of the two lists is eventually empty.
C11_LoopTerminates == (pc = "loop") ~> (creditors = <<>> \/ debtors = <<>>)

\* C12: the call does not modify its arguments: no step changes the
\* expenses array or a record of it, or the members array.
C12_ArgumentsUnchanged == [][expenses' = expenses /\ members' = members]_vars

\* The call has returned transactions after the filter dropped an entry of
\* members and the loop moved a running balance.
C12_Witness ==
  /\ pc = "done" /\ Len(result) >= 1 /\ Len(fp) >= 1
  /\ Len(validMembers) < Len(members.items)

\* C13: a second call with the same expenses and the same members comes to
\* what the first call came to: the same transactions in the same order.
C13_SameArgumentsSameList ==
  (earlier # <<>> /\ pc \in {"done", "threw"}) => Outcome = earlier[1].outcome

\* A second call has returned two transactions or more.
C13_Witness == earlier # <<>> /\ pc = "done" /\ Len(result) >= 2

\* The cents of the expense records that name m as their payer.
RECURSIVE PaidBy(_, _)
PaidBy(items, m) ==
  IF items = <<>> THEN 0
  ELSE (IF Head(items).payer = m THEN Head(items).amount.n ELSE 0)
         + PaidBy(Tail(items), m)

\* Lists of strings and of records with numbers for amounts.
NumericInput ==
  /\ MemberStrings /\ expenses.t = "array"
  /\ \A i \in 1..Len(expenses.items) :
       expenses.items[i].t = "object" /\ expenses.items[i].amount.t = "number"

NonBlankNames == {m \in MemberNames : NotBlank(m)}

\* C14: when every valid member has paid the same total, the call returns
\* the empty list, for any number of members and of expenses.
C14_EqualTotalsReturnEmpty ==
  (pc = "done" /\ NumericInput
     /\ \A m1, m2 \in NonBlankNames :
          PaidBy(expenses.items, m1) = PaidBy(expenses.items, m2)) =>
    result = <<>>

\* Two members have paid the same total, one of them in two expenses.
C14_Witness ==
  /\ pc = "done" /\ NumericInput /\ result = <<>>
  /\ Cardinality(NonBlankNames) >= 2
  /\ \A m1, m2 \in NonBlankNames :
       PaidBy(expenses.items, m1) = PaidBy(expenses.items, m2)
  /\ \E m \in NonBlankNames :
       /\ PaidBy(expenses.items, m) > 0
       /\ Len(totalSpent[m].addends) >= 2

\* The members who have paid something.
Payers == {m \in MemberNames : PaidBy(expenses.items, m) > 0}

\* C15: when one member P alone has paid, a total T, among n >= 2 distinct
\* members and T / n is a whole number of cents, the call returns n - 1
\* transactions: one from each other member to P, each of T / n, which sum
\* to T - T / n.
C15_SinglePayerEqualSplit ==
  (pc = "done" /\ ValidInput /\ GroupSize >= 2 /\ Cardinality(Payers) = 1) =>
    LET P == CHOOSE m \in Payers : TRUE
        T == PaidBy(expenses.items, P)
    IN T % GroupSize = 0 =>
         /\ Len(result) = GroupSize - 1
         /\ \A m \in MemberNames \ {P} :
              \E i \in 1..Len(result) :
                result[i] = [from |-> m, to |-> P, amount |-> ToFixed2(T \div GroupSize)]
         /\ Received(P) = T - T \div GroupSize

RECURSIVE SumAll(_)
SumAll(txs) ==
  IF txs = <<>> THEN 0 ELSE ParseCents(Head(txs).amount) + SumAll(Tail(txs))

\* The total owed to the creditors, and by the debtors, in 1/n cent.
PositiveTotal == SumBalances(PositiveBalances)

NegativeTotal == -SumBalances(NegativeBalances)

\* C16, as stated (for the runs without doubt, and distinct names): the sum
\* of the returned amounts differs from the total owed to the creditors by
\* at most 0.01 times the number of returned transactions.
C16_SumWithinTransactionTolerance ==
  (pc = "done" /\ DistinctMembers /\ NoDoubt) =>
    Abs(Len(validMembers) * SumAll(result) - PositiveTotal)
      <= Len(validMembers) * Len(result)

\* C16, amended: the sum of the returned amounts differs from the total
\* owed to the creditors, when the call ends with no creditor left in the
\* list, and from the total owed by the debtors, when it ends with no
\* debtor left, by at most 0.01 times the number of those creditors, or
\* debtors; with distinct names, so by at most 0.01 times (the number of
\* valid members - 1) from either total.
C16_SumWithinMemberTolerance ==
  pc = "done" =>
    /\ creditors = <<>> =>
         Abs(Len(validMembers) * SumAll(result) - PositiveTotal)
           <= Len(validMembers) * Cardinality(PositiveBalances)
    /\ debtors = <<>> =>
         Abs(Len(validMembers) * SumAll(result) - NegativeTotal)
           <= Len(validMembers) * Cardinality(NegativeBalances)
    /\ DistinctMembers =>
         /\ PositiveTotal = NegativeTotal
         /\ Abs(Len(validMembers) * SumAll(result) - PositiveTotal)
              <= Len(validMembers) * (Len(validMembers) - 1)

\* Transactions are returned whose sum is further from the total owed to
\* the creditors than a cent for each of them.
C16_Witness ==
  /\ pc = "done" /\ DistinctMembers /\ result # <<>>
  /\ Abs(Len(validMembers) * SumAll(result) - PositiveTotal)
       > Len(validMembers) * Len(result)

\* No double of the call is on a boundary, from the first iteration to the
\* last: the call has one run, the run of the code.
ForcedRun ==
  /\ pc \in {"loop", "body"}
  /\ KeyOrders(validMembers, totalSpent) = {keys}
  /\ Forced([creditors |-> Creditors(keys, balances),
             debtors |-> Debtors(keys, balances),
             transactions |-> <<>>], Len(validMembers))

\* C17 (for the runs without doubt): in every iteration the creditor that
\* is matched has the largest remaining balance of the creditors in the
\* list, and the debtor that is matched the largest remaining debt of the
\* debtors in the list.
C17_HeadsAreLargest ==
  (pc = "body" /\ ForcedRun) =>
    /\ \A i \in 1..Len(creditors) : creditors[i].balance <= Head(creditors).balance
    /\ \A i \in 1..Len(debtors) : debtors[i].balance >= Head(debtors).balance

\* C18, on the call of InitHalfCent: the amount settled in an iteration is
\* the smaller of the head creditor's balance and the head debtor's debt,
\* rounded to the nearest cent with a half rounded up; it is emitted if it is
\* more than 0, and both running balances move toward zero by it.
C18_RoundsHalfUpAndMoves ==
  [][(pc = "body" /\ InitHalfCent) =>
       LET creditor == Head(creditors)
           debtor == Head(debtors)
           n == Len(validMembers)
           r == RoundCents(MinAmount(creditor, debtor), n, FALSE)
       IN /\ transactions' =
               IF r > 0
                 THEN Append(transactions,
                             [from |-> debtor.name, to |-> creditor.name,
                              amount |-> ToFixed2(r)])
                 ELSE transactions
          /\ creditors' # Tail(creditors) =>
               creditors' = <<[creditor EXCEPT !.balance = @ - r * n]>> \o Tail(creditors)
          /\ debtors' # Tail(debtors) =>
               debtors' = <<[debtor EXCEPT !.balance = @ + r * n]>> \o Tail(debtors)]_vars

\* C19 (for the runs without doubt): for every expense list and every
\* member list, also one in which a name occurs more than once, the
\* balances of the distinct valid names sum to zero.
C19_BalancesSumToZero ==
  (pc = "done" /\ NoDoubt /\ NumericInput /\ validMembers # <<>>) =>
    SumBalances(DOMAIN balances) = 0

\* No call of the store is awaited and no callback waits for its frame.
Quiet == awaiting = {} /\ frames = <<>>

ReturnsNow(c) ==
  /\ c \in DOMAIN calls'
  /\ calls'[c].pc = "returned"
  /\ c \in DOMAIN calls => calls[c].pc # "returned"

\* C21: deleteGroup returns true only when the caller created the group,
\* and when it returns true neither the group nor any expense of the group
\* is in the store, also when an addExpense for the group is interleaved
\* with it; when it returns false, it has deleted nothing.
C21_DeleteGroupLeavesNothing ==
  [][\A c \in DOMAIN calls' :
       (ReturnsNow(c) /\ calls'[c].op = "deleteGroup") =>
         IF calls'[c].result = "true"
           THEN /\ Field(calls'[c].groupDoc, "createdBy") = calls'[c].userId
                /\ ~GetDoc(groupDocs', calls'[c].groupId).exists
                /\ ExpensesIn(expenseDocs', calls'[c].groupId) = {}
         ELSE /\ groupDocs' = groupDocs
              /\ expenseDocs' = expenseDocs
              /\ c \in DOMAIN calls => calls[c].pc = "getDoc"]_vars

\* The caller created the expense the call read, or the group it read.
CreatedExpenseOrGroup(call) ==
  \/ Field(call.expenseDoc, "userId") = call.userId
  \/ Field(call.groupDoc, "createdBy") = call.userId

\* C22: deleteExpense and updateExpense apply one permission rule.  A call
\* that found the expense and the group succeeds when the caller created
\* the expense or created the group (unless the expense went away while
\* the call was under way), and otherwise fails, and a call that fails
\* leaves the expense as it was.
C22_SamePermissionRule ==
  [][\A c \in DOMAIN calls' :
       (/\ ReturnsNow(c)
        /\ calls'[c].op \in {"deleteExpense", "updateExpense"}
        /\ calls'[c].expenseDoc.exists
        /\ calls'[c].groupDoc.exists) =>
         IF calls'[c].result = "error"
           THEN /\ \/ ~CreatedExpenseOrGroup(calls'[c])
                   \/ ~GetDoc(expenseDocs, calls'[c].id).exists
                /\ expenseDocs' = expenseDocs
         ELSE CreatedExpenseOrGroup(calls'[c])]_vars

\* C23: every iteration of the matching loop removes at least one of the
\* two heads, the one whose remaining amount was the minimum (so the loop
\* runs at most |creditors| + |debtors| - 1 times, and a list only loses
\* members).
C23_IterationRemovesAHead ==
  [][pc = "body" =>
       LET creditor == Head(creditors)
           debtor == Head(debtors)
       IN /\ creditors' = Tail(creditors) \/ debtors' = Tail(debtors)
          /\ Len(creditors') <= Len(creditors) /\ Len(debtors') <= Len(debtors)
          /\ (creditor.is = "number" /\ debtor.is = "number") =>
               /\ creditor.balance <= -debtor.balance => creditors' = Tail(creditors)
               /\ -debtor.balance <= creditor.balance => debtors' = Tail(debtors)]_vars

\* A call whose doubles are known: of three members the first alone paid
\* 0.03.  The balances are 0.02, -0.01 and -0.01, and on doubles
\* (0.03 - 0.01) - 0.01 is 0.009999999999999997.
PaidThreeCents ==
  /\ members = GroupMembers(3)
  /\ expenses = Arr(<<Obj(Name(1), Num(3))>>)

\* C24, on the call of PaidThreeCents: when all balances are whole cents
\* and the member names are distinct, the returned transactions settle
\* exactly (for every member, received minus paid is the balance), and both
\* working lists are empty when the loop ends.
C24_WholeCentsSettleExactly ==
  (pc = "done" /\ PaidThreeCents /\ ValidInput /\ WholeCentBalances) =>
    /\ \A m \in MemberNames :
         GroupSize * (Received(m) - PaidOut(m)) = OriginalBalance(m)
    /\ creditors = <<>>
    /\ debtors = <<>>

\* C25: no member is charged or paid more than half a cent too much: what a
\* debtor pays over all returned transactions is at most the debt + 0.005,
\* what a creditor receives is at most the balance + 0.005; and at every
\* head of the loop the head creditor's running balance is above 0 and the
\* head debtor's below 0.
C25_NoOverCharge ==
  /\ (pc = "loop" /\ ~LoopDone(St)) =>
       /\ Head(creditors).is = "number" /\ Head(creditors).balance > 0
       /\ Head(debtors).is = "number" /\ Head(debtors).balance < 0
  /\ pc = "done" =>
       \A m \in DOMAIN balances :
         LET n == Len(validMembers)
         IN /\ (~balances[m].nan /\ balances[m].b < 0) =>
                 2 * n * PaidOut(m) <= n - 2 * balances[m].b
            /\ (~balances[m].nan /\ balances[m].b > 0) =>
                 2 * n * Received(m) <= n + 2 * balances[m].b

FirstPaid(m) == CHOOSE i \in 1..Len(result) : result[i].to = m /\ \A j \in 1..(i - 1) : result[j].to # m

FirstPaying(m) ==
  CHOOSE i \in 1..Len(result) : result[i].from = m /\ \A j \in 1..(i - 1) : result[j].from # m

\* The place of the first entry of the member list that is m.
PlaceInList(m) ==
  CHOOSE i \in 1..Len(members.items) :
    members.items[i] = m /\ \A j \in 1..(i - 1) : members.items[j] # m

\* The order of Object.keys: an array index before every other name, array
\* indices by their value, other names by their place in the member list.
KeyBefore(a, b) ==
  IF IsArrayIndex(a) /\ IsArrayIndex(b) THEN IndexValue(a) < IndexValue(b)
  ELSE IF IsArrayIndex(a) THEN TRUE
  ELSE IF IsArrayIndex(b) THEN FALSE
  ELSE PlaceInList(a) < PlaceInList(b)

\* The transactions of one creditor are next to each other, and so are
\* those of one debtor; creditors come by original balance, the larger
\* first, and debtors by original debt, the larger first.
InGenerationOrder ==
  \A i, j \in 1..Len(result) :
    i < j =>
      /\ \A k \in i..j : result[i].to = result[j].to => result[k].to = result[i].to
      /\ \A k \in i..j : result[i].from = result[j].from => result[k].from = result[i].from
      /\ balances[result[i].to].b >= balances[result[j].to].b
      /\ balances[result[i].from].b <= balances[result[j].from].b

\* The totals of a and b are the same sum of the same amounts, so that
\* their balances are equal as doubles too.
SameBalance(a, b) ==
  /\ balances[a].b = balances[b].b
  /\ ~Unsettled(totalSpent, a, b)

\* C27 as stated (for the runs without doubt): the returned list is in
\* generation order, and members with equal balance appear in member-list
\* order.
C27_TiesInMemberListOrder ==
  (pc = "done" /\ NoDoubt) =>
    /\ InGenerationOrder
    /\ \A i, j \in 1..Len(result) :
         LET a == result[i].to
             b == result[j].to
         IN (SameBalance(a, b) /\ FirstPaid(a) < FirstPaid(b))
              => PlaceInList(a) < PlaceInList(b)
    /\ \A i, j \in 1..Len(result) :
         LET a == result[i].from
             b == result[j].from
         IN (SameBalance(a, b) /\ FirstPaying(a) < FirstPaying(b))
              => PlaceInList(a) < PlaceInList(b)

\* C27, amended: the returned list is in generation order, and members
\* with equal balance appear in the order of Object.keys: names that are
\* array indices first, in ascending numeric order, then the other names in
\* member-list order.
C27_TiesInKeyOrder ==
  pc = "done" =>
    /\ InGenerationOrder
    /\ \A i, j \in 1..Len(result) :
         LET a == result[i].to
             b == result[j].to
         IN (SameBalance(a, b) /\ FirstPaid(a) < FirstPaid(b)) => KeyBefore(a, b)
    /\ \A i, j \in 1..Len(result) :
         LET a == result[i].from
             b == result[j].from
         IN (SameBalance(a, b) /\ FirstPaying(a) < FirstPaying(b)) => KeyBefore(a, b)

\* Two creditors of equal balance are paid, the one that is later in the
\* member list first.
C27_Witness ==
  /\ pc = "done" /\ NoDoubt
  /\ \E i, j \in 1..Len(result) :
       LET a == result[i].to
           b == result[j].to
       IN /\ SameBalance(a, b) /\ FirstPaid(a) < FirstPaid(b)
          /\ PlaceInList(b) < PlaceInList(a)

\* Two calls whose doubles are known.  Of two members the first paid 0.01
\* and 0.06: the total is 0.06999999999999999, the share of each
\* 0.034999999999999996, and Math.round(3.4999999999999996) is 3.  Had the
\* member paid 0.07 at once, the share is 0.035, 0.035 * 100 is
\* 3.5000000000000004 and Math.round gives 4.
PaidInTwo ==
  /\ expenses = Arr(<<Obj(Name(1), Num(1)), Obj(Name(1), Num(6))>>)
  /\ Len(members.items) = 2 /\ Includes(members.items, Name(1))

PaidAtOnce == Arr(<<Obj(Name(1), Num(7))>>)

HalfDown == <<[NoFlags EXCEPT !.tieDown = TRUE]>>

HalfUp == <<NoFlags>>

\* C28, on the calls of PaidInTwo and PaidAtOnce: the result does not
\* depend on the grouping of the expenses: replacing two expenses of the
\* same payer by one expense with the summed amount yields the same
\* returned transactions.
C28_GroupingChangesNothing ==
  (pc = "done" /\ PaidInTwo /\ fp = HalfDown) =>
    result = calculateExpenseSplit(PaidAtOnce, members, keys, HalfUp).value

\* Two calls whose doubles are known.  Of the members A, B, C, in this
\* order, A paid 0.10, B 0.04 and C 0.01: the total is 0.15000000000000002,
\* the balance of A 0.049999999999999996, and what is left of it after the
\* 0.04 of C is 0.009999999999999995, below 0.01.  With the members in the
\* order A, C, B the total is 0.15 and what is left is 0.010000000000000009.
PaidTenFourOne ==
  /\ members = GroupMembers(3)
  /\ expenses = Arr(GroupExpenses(<<10, 4, 1>>, 1))

LastTwoExchanged == Arr(<<Name(1), Name(3), Name(2)>>)

CentIsBelow == <<[NoFlags EXCEPT !.edgeC = TRUE]>>

CentIsAbove == <<NoFlags, NoFlags>>

DifferentBalances ==
  \A a, b \in DOMAIN balances :
    (a # b /\ balances[a].b # 0) => balances[a].b # balances[b].b

\* C29, on the calls of PaidTenFourOne and LastTwoExchanged: when all
\* non-zero balances are pairwise different, the result does not depend on
\* the order of the member list: a permutation of the same distinct member
\* names yields the same transactions in the same order.
C29_MemberOrderChangesNothing ==
  (pc = "done" /\ PaidTenFourOne /\ DifferentBalances /\ fp = CentIsBelow) =>
    result = calculateExpenseSplit(expenses, LastTwoExchanged, <<>>, CentIsAbove).value

\* The name the member at the index of the handler had.
OldName(task) == task.groupMembers.items[task.index]

\* The expenses the handler captured, without those paid under name.
PaidByOthers(exp, name) == Arr(SelectSeq(exp.items, LAMBDA e : e.payer # name))

\* The settlement of the new member list with the expenses recorded under
\* the old name deleted.
SettlementWithoutOld(task) ==
  calculateExpenseSplit(PaidByOthers(task.expenses, OldName(task)),
                        task.updatedMembers, <<>>, <<>>).value

\* updateGroupMembers returns to the handler of a rename or of a removal.
MemberUpdateReturns(task) ==
  /\ task \in awaiting /\ task \notin awaiting'
  /\ task.op \in {"rename", "remove"}

====
